---- MODULE Spec2Model ----
(***************************************************************************)
(* Model of PostProcMixin (cq_gears/common.py): the post-processing        *)
(* pipeline _post_process and its five steps bore, recess, hub, spokes,    *)
(* chamfer.                                                                 *)
(*                                                                          *)
(* Lengths are integers counted in units of 0.0001 (the epsilon of         *)
(* spokes), and every sampled diameter is an even number of units so that  *)
(* "x / 2.0" is exact.  The geometry kernel (cadquery) is external: a      *)
(* kernel call is recorded as an entry <<name, numbers>> of the step's     *)
(* operation log, and a solid body is the sequence of the features that    *)
(* were cut from or added to the blank.                                    *)
(***************************************************************************)
EXTENDS Integers, Sequences, FiniteSets, TLC

VARIABLES params, body0, body, pc, status, calls, error, result

vars == <<params, body0, body, pc, status, calls, error, result>>

----------------------------------------------------------------------------
(* Values of the parameter pool: None, a number, or a pair of numbers.     *)

None == <<"none", 0, 0>>

Num(v) == <<"num", v, 0>>

Pair(p, q) == <<"pair", p, q>>

(* inspect.Parameter.empty: the signature declares no default *)
Empty == <<"empty", 0, 0>>

IsNone(x) == x[1] = "none"

IsPair(x) == x[1] = "pair"

\* x / 2.0 for an even x
Half(x) == x \div 2

Max(a, b) == IF a >= b THEN a ELSE b

----------------------------------------------------------------------------
(* Bounds and the sampled inputs.                                          *)

\* largest number of names a parameter pool supplies
MaxSupplied == 4

\* addendum radius and face width of the gear (10.0 and 5.0)
ra == 100000

width == 50000

Names == {"bore_d", "recess", "recess_d", "hub_d", "hub_length",
          "n_spokes", "spokes_id", "spokes_od", "spoke_width",
          "spoke_fillet", "chamfer", "chamfer_top", "chamfer_bottom",
          "module"}

\* the values a pool may give to a name; None is a value a caller may
\* supply ("disable this step"), and a name left out of the pool is bound to
\* None as well
Dom(k) ==
    CASE k = "bore_d"         -> {None, Num(0), Num(30000)}
      [] k = "recess"         -> {None, Num(10000)}
      [] k = "recess_d"       -> {Num(160000)}
      [] k = "hub_d"          -> {Num(60000)}
      [] k = "hub_length"     -> {None, Num(50000)}
      [] k = "n_spokes"       -> {None, Num(1), Num(5)}
      [] k = "spokes_id"      -> {Num(0), Num(60000), Num(180000)}
      [] k = "spokes_od"      -> {Num(180000)}
      [] k = "spoke_width"    -> {Num(20000)}
      [] k = "spoke_fillet"   -> {Num(5000)}
      [] k = "chamfer"        -> {None, Num(10000), Pair(10000, 20000)}
      [] k = "chamfer_top"    -> {Num(10000), Pair(30000, 20000)}
      [] k = "chamfer_bottom" -> {Pair(10000, 10000), Pair(30000, 20000)}
      [] OTHER                -> {Num(10000)}

RECURSIVE PoolsOver(_)
PoolsOver(S) ==
    IF S = {} THEN {<<>>}
    ELSE LET k == CHOOSE x \in S : TRUE
         IN  {(k :> v) @@ f : v \in Dom(k), f \in PoolsOver(S \ {k})}

\* the keyword arguments **params of _post_process
Pools == UNION {PoolsOver(S) : S \in {T \in SUBSET Names : Cardinality(T) <= MaxSupplied}}

\* the gear blank handed to _post_process
Blank == <<>>

----------------------------------------------------------------------------
(* Results of a step: the body it returns, the kernel calls it made, and   *)
(* the exception that ended it ("none" when it returned).                  *)

Op(name, nums) == <<name, nums>>

Feature(name, nums) == <<name, nums>>

Returned(b, ops) == [body |-> b, ops |-> ops, err |-> "none"]

Raised(b, ops, e) == [body |-> b, ops |-> ops, err |-> e]

\* what the kernel does with circle(r): a circle of radius <= 0 is not a
\* valid profile, and whether the cut fails or cuts nothing is the kernel's
\* choice (kout)
CircleFails(r, kout) == r <= 0 /\ kout = "GeometryFailure"

KernelOutcomes == {"ok", "GeometryFailure"}

----------------------------------------------------------------------------
(* PostProcMixin.bore                                                      *)

bore(b, bore_d, kout) ==
    IF IsNone(bore_d) THEN Returned(b, <<>>)
    ELSE
      LET r   == Half(bore_d[2])
          ops == <<Op("add", <<>>), Op("faces<Z", <<>>), Op("workplane", <<>>),
                   Op("circle", <<r>>), Op("cutThruAll", <<>>)>>
      IN  IF CircleFails(r, kout) THEN Raised(b, ops, "GeometryFailure")
          ELSE Returned(Append(b, Feature("bore", <<r>>)), ops)

----------------------------------------------------------------------------
(* PostProcMixin.recess                                                    *)

recess(b, recess_, recess_d, hub_d, kout) ==
    IF IsNone(recess_) THEN Returned(b, <<>>)
    ELSE
      LET ops0 == <<Op("add", <<>>), Op("faces>Z", <<>>), Op("workplane", <<>>)>>
          ops1 == IF IsNone(hub_d) THEN ops0
                  ELSE Append(ops0, Op("circle", <<Half(hub_d[2])>>))
          r    == Half(recess_d[2])
          ops2 == ops1 \o <<Op("circle", <<r>>), Op("cutBlind", <<0 - recess_[2]>>)>>
          inner == IF IsNone(hub_d) THEN <<>> ELSE <<Half(hub_d[2])>>
      IN  IF ~IsNone(hub_d) /\ CircleFails(Half(hub_d[2]), kout)
            THEN Raised(b, ops1, "GeometryFailure")
          ELSE IF IsNone(recess_d) THEN Raised(b, ops1, "TypeError")
          ELSE IF CircleFails(r, kout) THEN Raised(b, ops2, "GeometryFailure")
          ELSE Returned(Append(b, Feature("recess", <<recess_[2], r>> \o inner)), ops2)

----------------------------------------------------------------------------
(* PostProcMixin.hub                                                       *)

hub_body(b, hub_length, hub_d, bore_d, kout) ==
    LET ops0 == <<Op("add", <<>>), Op("faces>Z", <<>>), Op("workplane", <<>>)>>
        ops1 == IF IsNone(bore_d) THEN ops0
                ELSE Append(ops0, Op("circle", <<Half(bore_d[2])>>))
        r    == Half(hub_d[2])
        ops2 == ops1 \o <<Op("circle", <<r>>), Op("extrude", <<hub_length[2]>>)>>
        inner == IF IsNone(bore_d) THEN <<>> ELSE <<Half(bore_d[2])>>
    IN  IF ~IsNone(bore_d) /\ CircleFails(Half(bore_d[2]), kout)
          THEN Raised(b, ops1, "GeometryFailure")
        ELSE IF IsNone(hub_d) THEN Raised(b, ops1, "TypeError")
        ELSE IF CircleFails(r, kout) THEN Raised(b, ops2, "GeometryFailure")
        ELSE Returned(Append(b, Feature("hub", <<hub_length[2], r>> \o inner)), ops2)

\* the assertion placed before the early return
hub_assert_first(b, hub_length, hub_d, bore_d, kout) ==
    IF IsNone(hub_d) THEN Raised(b, <<>>, "AssertionError")
    ELSE IF IsNone(hub_length) THEN Returned(b, <<>>)
    ELSE hub_body(b, hub_length, hub_d, bore_d, kout)

\* the assertion left out
hub_no_assert(b, hub_length, hub_d, bore_d, kout) ==
    IF IsNone(hub_length) THEN Returned(b, <<>>)
    ELSE hub_body(b, hub_length, hub_d, bore_d, kout)

hub(b, hub_length, hub_d, bore_d, kout) ==
    IF IsNone(hub_length) THEN Returned(b, <<>>)
    ELSE IF IsNone(hub_d) THEN Raised(b, <<>>, "AssertionError")
    ELSE hub_body(b, hub_length, hub_d, bore_d, kout)

----------------------------------------------------------------------------
(* PostProcMixin.spokes                                                    *)

\* the epsilon by which the cutout radii are nudged (0.0001)
EPS == 1

spokes_r1(spokes_id, spoke_width) ==
    (IF IsNone(spokes_id) THEN Half(spoke_width[2])
     ELSE Max(Half(spoke_width[2]), Half(spokes_id[2]))) + EPS

spokes_r2(spokes_od) == Half(spokes_od[2]) - EPS

\* the wedge is handed to the kernel; with r1 >= r2, or with a chord wider
\* than the inner diameter (arcsin of a ratio above 1 is nan), whether the
\* kernel builds a solid from it is the kernel's choice (kout)
WedgeFails(r1, r2, spoke_width, spokes_id, spokes_od, kout) ==
    /\ \/ r1 >= r2
       \/ spoke_width[2] > spokes_id[2]
       \/ spoke_width[2] > spokes_od[2]
    /\ kout = "GeometryFailure"

\* the n cuts of the loop, cutter i rotated by i * tau, tau = 2 pi / n
RECURSIVE spokes_cuts(_, _)
spokes_cuts(i, n) ==
    IF i >= n THEN <<>>
    ELSE <<Op("cut_rotated", <<i, n>>)>> \o spokes_cuts(i + 1, n)

\* lines 149-184, once the assertions have passed
spokes_body(b, n_spokes, spokes_id, spokes_od, spoke_width, spoke_fillet, kout) ==
    LET r1  == spokes_r1(spokes_id, spoke_width)
        r2  == spokes_r2(spokes_od)
        n   == n_spokes[2]
        \* a1 = arcsin(spoke_width / spokes_id), a2 = arcsin(spoke_width / spokes_od)
        wedge == <<r1, r2, spoke_width[2], spokes_id[2], spokes_od[2]>>
        ops0 == <<Op("workplane", <<0 - 1000>>), Op("wedge", wedge),
                  Op("extrude", <<width + 10000>>)>>
        ops1 == IF IsNone(spoke_fillet) THEN ops0
                ELSE Append(ops0, Op("fillet", <<spoke_fillet[2]>>))
        ops2 == Append(ops1, Op("add", <<>>))
        fil  == IF IsNone(spoke_fillet) THEN <<>> ELSE <<spoke_fillet[2]>>
    IN  IF IsNone(spokes_id) THEN Raised(b, <<>>, "TypeError")
        ELSE IF Half(spokes_id[2]) = 0 THEN Raised(b, <<>>, "ZeroDivisionError")
        ELSE IF Half(spokes_od[2]) = 0 THEN Raised(b, <<>>, "ZeroDivisionError")
        ELSE IF WedgeFails(r1, r2, spoke_width, spokes_id, spokes_od, kout)
          THEN Raised(b, ops0, "GeometryFailure")
        ELSE Returned(Append(b, Feature("spokes", <<n>> \o wedge \o fil)),
                      ops2 \o spokes_cuts(0, n))

spokes(b, n_spokes, spokes_id, spokes_od, spoke_width, spoke_fillet, kout) ==
    IF IsNone(n_spokes) THEN Returned(b, <<>>)
    ELSE IF ~(n_spokes[2] > 1) THEN Raised(b, <<>>, "AssertionError")
    ELSE IF IsNone(spoke_width) THEN Raised(b, <<>>, "AssertionError")
    ELSE IF IsNone(spokes_od) THEN Raised(b, <<>>, "AssertionError")
    ELSE spokes_body(b, n_spokes, spokes_id, spokes_od, spoke_width,
                     spoke_fillet, kout)

----------------------------------------------------------------------------
(* PostProcMixin.chamfer                                                   *)

\* the overlap of the chamfer cutters (E = 0.01)
E == 100

\* wx, wy = chamfer_top            for a list or tuple
\* wx, wy = chamfer_top, chamfer_top   otherwise
unpack_swapped(c) == IF IsPair(c) THEN <<c[3], c[2]>> ELSE <<c[2], c[2]>>

unpack_scalar_flat(c) == IF IsPair(c) THEN <<c[2], c[3]>> ELSE <<c[2], 0>>

unpack(c) == IF IsPair(c) THEN <<c[2], c[3]>> ELSE <<c[2], c[2]>>

\* the seeding of lines 196-200: chamfer fills in the face that is not given
seed_always(chamfer_, face) == IF ~IsNone(chamfer_) THEN chamfer_ ELSE face

seed(chamfer_, face) ==
    IF ~IsNone(chamfer_) /\ IsNone(face) THEN chamfer_ ELSE face

\* the triangle of the top cutter in the axial plane (x radial, y axial):
\* start point, horizontal leg, vertical leg
top_cutter(c) ==
    LET w == unpack(c)
    IN  <<ra - w[1], width + E, w[1] + E, 0 - w[2] - E>>

\* the triangle of the bottom cutter: start point, vertical leg, horizontal leg
bottom_cutter(c) ==
    LET w == unpack(c)
    IN  <<ra + E, w[2], 0 - w[2] - E, 0 - w[1] - E>>

chamfer(b, chamfer_, chamfer_top, chamfer_bottom, kout) ==
    IF IsNone(chamfer_) /\ IsNone(chamfer_top) /\ IsNone(chamfer_bottom)
      THEN Returned(b, <<>>)
    ELSE
      LET top == seed(chamfer_, chamfer_top)
          bot == seed(chamfer_, chamfer_bottom)
          t   == top_cutter(top)
          u   == bottom_cutter(bot)
          topOps == IF IsNone(top) THEN <<>>
                    ELSE <<Op("moveTo", <<t[1], t[2]>>), Op("hLine", <<t[3]>>),
                           Op("vLine", <<t[4]>>), Op("close", <<>>),
                           Op("revolve", <<>>), Op("add", <<>>), Op("cut", <<>>)>>
          botOps == IF IsNone(bot) THEN <<>>
                    ELSE <<Op("moveTo", <<u[1], u[2]>>), Op("vLine", <<u[3]>>),
                           Op("hLine", <<u[4]>>), Op("close", <<>>),
                           Op("revolve", <<>>), Op("add", <<>>), Op("cut", <<>>)>>
          topF == IF IsNone(top) THEN <<>> ELSE <<Feature("chamfer_top", t)>>
          botF == IF IsNone(bot) THEN <<>> ELSE <<Feature("chamfer_bottom", u)>>
      IN  Returned(b \o topF \o botF, topOps \o botOps)

----------------------------------------------------------------------------
(* PostProcMixin._post_process                                             *)

postproc_sequence_hub_first == <<"bore", "hub", "recess", "spokes", "chamfer">>

postproc_sequence == <<"bore", "recess", "hub", "spokes", "chamfer">>

\* signature(pp).parameters: the declared names, in order
Signature(name) ==
    CASE name = "bore"    -> <<"body", "bore_d">>
      [] name = "recess"  -> <<"body", "recess", "recess_d", "hub_d">>
      [] name = "hub"     -> <<"body", "hub_length", "hub_d", "bore_d">>
      [] name = "spokes"  -> <<"body", "n_spokes", "spokes_id", "spokes_od",
                               "spoke_width", "spoke_fillet">>
      [] name = "chamfer" -> <<"body", "chamfer", "chamfer_top", "chamfer_bottom">>

\* v.default: no parameter of the five steps declares a default
Default(name, k) == Empty

Declared(name) == {Signature(name)[i] : i \in 1..Len(Signature(name))}

\* a binder that copies the whole pool over the defaults
Bind_all(name, pool) ==
    LET keys == Declared(name) \ {"body"}
    IN  [k \in keys \cup DOMAIN pool |-> IF k \in DOMAIN pool THEN pool[k] ELSE None]

\* a binder that puts 0 where no default is declared
Bind_zero(name, pool) ==
    LET keys == Declared(name) \ {"body"}
    IN  [k \in keys |-> IF k \in DOMAIN pool THEN pool[k] ELSE Num(0)]

\* lines 73-78: the defaults, None where none is declared, overlaid by the pool
Bind(name, pool) ==
    LET keys == Declared(name) \ {"body"}
        args == [k \in keys |-> IF Default(name, k) # Empty THEN Default(name, k)
                                ELSE None]
    IN  [k \in keys |-> IF k \in DOMAIN pool THEN pool[k] ELSE args[k]]

\* line 80: pp(body, **args)
Invoke(name, b, args, kout) ==
    CASE name = "bore"    -> bore(b, args["bore_d"], kout)
      [] name = "recess"  -> recess(b, args["recess"], args["recess_d"],
                                    args["hub_d"], kout)
      [] name = "hub"     -> hub(b, args["hub_length"], args["hub_d"],
                                 args["bore_d"], kout)
      [] name = "spokes"  -> spokes(b, args["n_spokes"], args["spokes_id"],
                                    args["spokes_od"], args["spoke_width"],
                                    args["spoke_fillet"], kout)
      [] name = "chamfer" -> chamfer(b, args["chamfer"], args["chamfer_top"],
                                     args["chamfer_bottom"], kout)

TypeOK ==
    /\ DOMAIN params \subseteq Names
    /\ pc \in 1..(Len(postproc_sequence) + 1)
    /\ status \in {"running", "done", "failed"}
    /\ error \in {"none", "AssertionError", "TypeError", "ZeroDivisionError",
                  "GeometryFailure"}

Init ==
    /\ params \in Pools
    /\ body0 = Blank
    /\ body = body0
    /\ pc = 1
    /\ status = "running"
    /\ calls = <<>>
    /\ error = "none"
    /\ result = Blank

\* one iteration of the loop of _post_process, for the step called name
RunStep(name) ==
    /\ status = "running"
    /\ pc <= Len(postproc_sequence)
    /\ postproc_sequence[pc] = name
    /\ \E kout \in KernelOutcomes :
         LET args == Bind(name, params)
             r    == Invoke(name, body, args, kout)
         IN  /\ calls' = Append(calls, [step |-> name, args |-> args,
                                        bodyIn |-> body, bodyOut |-> r.body,
                                        ops |-> r.ops, err |-> r.err])
             /\ IF r.err = "none"
                  THEN /\ body' = r.body
                       /\ pc' = pc + 1
                       /\ UNCHANGED <<status, error>>
                  ELSE /\ status' = "failed"
                       /\ error' = r.err
                       /\ UNCHANGED <<body, pc>>
    /\ UNCHANGED <<params, body0, result>>

Bore == RunStep("bore")

Recess == RunStep("recess")

Hub == RunStep("hub")

Spokes == RunStep("spokes")

Chamfer == RunStep("chamfer")

\* line 82: return body
Return ==
    /\ status = "running"
    /\ pc = Len(postproc_sequence) + 1
    /\ result' = body
    /\ status' = "done"
    /\ UNCHANGED <<params, body0, body, pc, calls, error>>

Next == Bore \/ Recess \/ Hub \/ Spokes \/ Chamfer \/ Return

Spec == Init /\ [][Next]_vars

----------------------------------------------------------------------------
(* Properties.  A record of calls is a call of a step routine (line 80).   *)

Calls == {calls[i] : i \in 1..Len(calls)}

CallsOf(name) == {c \in Calls : c.step = name}

Present(c, k) == ~IsNone(c.args[k])

\* the features a call added to the body it was given
NewFeatures(c) ==
    {c.bodyOut[j] : j \in (Len(c.bodyIn) + 1)..Len(c.bodyOut)}

OpsNamed(c, name) == {j \in 1..Len(c.ops) : c.ops[j][1] = name}

TriggerAbsent(c) ==
    CASE c.step = "bore"    -> IsNone(c.args["bore_d"])
      [] c.step = "recess"  -> IsNone(c.args["recess"])
      [] c.step = "hub"     -> IsNone(c.args["hub_length"])
      [] c.step = "spokes"  -> IsNone(c.args["n_spokes"])
      [] c.step = "chamfer" -> /\ IsNone(c.args["chamfer"])
                               /\ IsNone(c.args["chamfer_top"])
                               /\ IsNone(c.args["chamfer_bottom"])

\* C1: the steps are called once each in the order bore, recess, hub,
\* spokes, chamfer; each is given the body the preceding one returned (the
\* caller's body for bore); a run in which no step fails calls all five and
\* returns the body chamfer returned.
C1_FixedOrderThreading ==
    /\ Len(calls) <= 5
    /\ \A i \in 1..Len(calls) :
         /\ calls[i].step = <<"bore", "recess", "hub", "spokes", "chamfer">>[i]
         /\ calls[i].bodyIn = (IF i = 1 THEN body0 ELSE calls[i - 1].bodyOut)
         /\ (i < Len(calls) => calls[i].err = "none")
    /\ status = "done" =>
         /\ Len(calls) = 5
         /\ calls[5].err = "none"
         /\ result = calls[5].bodyOut

C1_Witness ==
    /\ status = "done"
    /\ Len(calls) = 5
    /\ calls[2].bodyOut # calls[2].bodyIn
    /\ calls[3].bodyOut # calls[3].bodyIn
    /\ result # body0

\* C2: a step whose trigger is absent returns the body it was given, makes
\* no kernel call and raises nothing, whatever its other arguments are; a
\* run with every trigger absent returns the input body.
C2_AbsentTriggerNoOp ==
    /\ \A c \in Calls :
         TriggerAbsent(c) =>
           /\ c.err = "none"
           /\ c.ops = <<>>
           /\ c.bodyOut = c.bodyIn
    /\ (status = "done" /\ \A c \in Calls : TriggerAbsent(c)) => result = body0

C2_Witness ==
    /\ status = "done"
    /\ \A c \in Calls : TriggerAbsent(c)
    /\ \E c \in CallsOf("spokes") : Present(c, "spokes_id")
    /\ \E c \in CallsOf("recess") : Present(c, "hub_d")
    /\ result = body0

MissingNoDefault(name) ==
    {k \in Declared(name) \ {"body"} :
        Default(name, k) = Empty /\ k \notin DOMAIN params}

\* C3 as stated: a step that declares a parameter without a default which
\* the pool does not supply is never invoked (binding fails first).
C3_MissingParameterRaised ==
    \A c \in Calls : MissingNoDefault(c.step) = {}

\* C3 amended: a declared parameter without a default which the pool does
\* not supply is bound to None and the step routine is invoked with it; no
\* error comes from the binding.
C3_MissingBoundToNone ==
    /\ \A c \in Calls : \A k \in MissingNoDefault(c.step) : c.args[k] = None
    /\ \A i \in 1..Len(postproc_sequence) :
         (status = "done" \/ pc > i) => Len(calls) >= i
    /\ error # "MissingParameter"

C3_Witness ==
    /\ status = "done"
    /\ \E c \in CallsOf("hub") :
         /\ "bore_d" \in MissingNoDefault("hub")
         /\ ~TriggerAbsent(c)
         /\ c.args["bore_d"] = None
         /\ c.err = "none"

C4_Keys(name) ==
    CASE name = "bore"    -> {"bore_d"}
      [] name = "recess"  -> {"recess", "recess_d", "hub_d"}
      [] name = "hub"     -> {"hub_length", "hub_d", "bore_d"}
      [] name = "spokes"  -> {"n_spokes", "spokes_id", "spokes_od",
                              "spoke_width", "spoke_fillet"}
      [] name = "chamfer" -> {"chamfer", "chamfer_top", "chamfer_bottom"}

C4_Args ==
    /\ \A c \in Calls :
         /\ DOMAIN c.args = C4_Keys(c.step)
         /\ \A k \in DOMAIN c.args :
              c.args[k] = IF k \in DOMAIN params THEN params[k]
                          ELSE IF Default(c.step, k) # Empty
                                 THEN Default(c.step, k)
                          ELSE None
    /\ \A c \in Calls : \A d \in Calls :
         \A k \in (DOMAIN c.args) \cap (DOMAIN d.args) \cap (DOMAIN params) :
            c.args[k] = params[k] /\ d.args[k] = params[k]

\* C4: the arguments bound for a step have exactly the step's declared
\* names other than body as keys; a key the pool contains has the pool's
\* value (None included), any other key its default; names the step does
\* not declare are not passed; the pool is never changed, so a name two
\* steps share is bound to the same pool value in both.
C4_BindingOverlay == [](C4_Args) /\ [][params' = params]_vars

C4_Witness ==
    /\ "module" \in DOMAIN params
    /\ "recess" \in DOMAIN params
    /\ params["recess"] = None
    /\ \E c \in CallsOf("bore") : \E d \in CallsOf("hub") :
         /\ "bore_d" \in DOMAIN params
         /\ c.args["bore_d"] = Num(30000)
         /\ d.args["bore_d"] = Num(30000)
         /\ d.args["hub_d"] = None

\* C5: hub with hub_length present and hub_d absent fails before any kernel
\* call and returns no body, whatever bore_d is; the run stops there, so
\* spokes and chamfer are not called.
C5_HubNeedsDiameter ==
    \A c \in CallsOf("hub") :
        (Present(c, "hub_length") /\ ~Present(c, "hub_d")) =>
          /\ c.err = "AssertionError"
          /\ c.ops = <<>>
          /\ status = "failed"
          /\ error = "AssertionError"
          /\ CallsOf("spokes") = {}
          /\ CallsOf("chamfer") = {}

C5_Witness ==
    \E c \in CallsOf("hub") :
        /\ Present(c, "hub_length")
        /\ ~Present(c, "hub_d")
        /\ Present(c, "bore_d")
        /\ status = "failed"

\* C6 as stated: spokes with n_spokes > 1, spokes_od and spoke_width present
\* and spokes_id absent completes without error with r1 = spoke_width / 2 +
\* epsilon and cuts exactly n_spokes cutters, rotated by i * tau for
\* i = 0 .. n_spokes - 1.
C6_SpokesWithoutInnerDiameter ==
    \A c \in CallsOf("spokes") :
        (/\ Present(c, "n_spokes")
         /\ c.args["n_spokes"][2] > 1
         /\ Present(c, "spokes_od")
         /\ Present(c, "spoke_width")
         /\ ~Present(c, "spokes_id")) =>
          /\ c.err = "none"
          /\ \E j \in OpsNamed(c, "wedge") :
               c.ops[j][2][1] = Half(c.args["spoke_width"][2]) + EPS
          /\ {c.ops[j][2] : j \in OpsNamed(c, "cut_rotated")}
               = {<<i, c.args["n_spokes"][2]>> : i \in 0..(c.args["n_spokes"][2] - 1)}
          /\ Cardinality(OpsNamed(c, "cut_rotated")) = c.args["n_spokes"][2]

\* C7 as stated: bore with bore_d <= 0 and spokes with n_spokes <= 1 are
\* rejected with an error before any kernel call, and the run stops.
C7_RangeViolationsRejected ==
    \A c \in Calls :
        (\/ c.step = "bore" /\ Present(c, "bore_d") /\ c.args["bore_d"][2] <= 0
         \/ c.step = "spokes" /\ Present(c, "n_spokes")
                              /\ c.args["n_spokes"][2] <= 1) =>
          /\ c.err # "none"
          /\ c.ops = <<>>
          /\ status = "failed"

AsPair(x) == IF x[1] = "num" THEN Pair(x[2], x[2]) ELSE x

Either(x, y) == IF IsNone(x) THEN y ELSE x

SameCut(c, r) == c.bodyOut = r.body /\ c.ops = r.ops /\ c.err = r.err

\* C8: chamfer = v alone cuts what chamfer_top = (v, v), chamfer_bottom =
\* (v, v) cuts; a scalar anywhere cuts what the pair (v, v) cuts; and with
\* chamfer given, a face given on its own keeps its value and the other
\* face takes chamfer's.
C8_ChamferScalarAndSeed ==
    \A c \in CallsOf("chamfer") :
        LET a == c.args
        IN  /\ (a["chamfer"][1] = "num" /\ IsNone(a["chamfer_top"])
                                        /\ IsNone(a["chamfer_bottom"])) =>
                 SameCut(c, chamfer(c.bodyIn, None,
                                    Pair(a["chamfer"][2], a["chamfer"][2]),
                                    Pair(a["chamfer"][2], a["chamfer"][2]), "ok"))
            /\ SameCut(c, chamfer(c.bodyIn, AsPair(a["chamfer"]),
                                  AsPair(a["chamfer_top"]),
                                  AsPair(a["chamfer_bottom"]), "ok"))
            /\ Present(c, "chamfer") =>
                 SameCut(c, chamfer(c.bodyIn, None,
                                    Either(a["chamfer_top"], a["chamfer"]),
                                    Either(a["chamfer_bottom"], a["chamfer"]), "ok"))

C8_Witness ==
    \E c \in CallsOf("chamfer") :
        /\ c.args["chamfer"] = Num(10000)
        /\ IsNone(c.args["chamfer_top"])
        /\ IsNone(c.args["chamfer_bottom"])
        /\ Len(c.bodyOut) = Len(c.bodyIn) + 2
        /\ status = "done"

\* the value each face is cut with
TopValue(c) == Either(c.args["chamfer_top"], c.args["chamfer"])

BottomValue(c) == Either(c.args["chamfer_bottom"], c.args["chamfer"])

TopCutters(c) == {f[2] : f \in {g \in NewFeatures(c) : g[1] = "chamfer_top"}}

BottomCutters(c) == {f[2] : f \in {g \in NewFeatures(c) : g[1] = "chamfer_bottom"}}

\* C9 as stated: a pair (p, q) is (axial, radial): the leg along the axis is
\* p + E long and the radial leg q + E, top and bottom alike.
C9_PairAxialRadial ==
    \A c \in CallsOf("chamfer") :
        /\ IsPair(TopValue(c)) =>
             /\ TopCutters(c) # {}
             /\ \A t \in TopCutters(c) :
                  /\ 0 - t[4] = TopValue(c)[2] + E
                  /\ t[3] = TopValue(c)[3] + E
        /\ IsPair(BottomValue(c)) =>
             /\ BottomCutters(c) # {}
             /\ \A u \in BottomCutters(c) :
                  /\ 0 - u[3] = BottomValue(c)[2] + E
                  /\ 0 - u[4] = BottomValue(c)[3] + E

\* C9 amended: a pair (p, q) is (radial, axial): the radial leg is p + E
\* long, from p inside the addendum radius to E outside it, and the leg
\* along the axis is q + E long; the top cutter is anchored E above the
\* body width, the bottom cutter ends E below the origin plane.
C9_PairRadialAxial ==
    \A c \in CallsOf("chamfer") :
        /\ IsPair(TopValue(c)) =>
             /\ TopCutters(c) # {}
             /\ \A t \in TopCutters(c) :
                  /\ t[3] = TopValue(c)[2] + E
                  /\ 0 - t[4] = TopValue(c)[3] + E
                  /\ t[1] = ra - TopValue(c)[2]
                  /\ t[2] = width + E
        /\ IsPair(BottomValue(c)) =>
             /\ BottomCutters(c) # {}
             /\ \A u \in BottomCutters(c) :
                  /\ 0 - u[4] = BottomValue(c)[2] + E
                  /\ 0 - u[3] = BottomValue(c)[3] + E
                  /\ u[1] = ra + E
                  /\ u[2] + u[3] = 0 - E

C9_Witness ==
    \E c \in CallsOf("chamfer") :
        /\ c.args["chamfer_top"] = Pair(30000, 20000)
        /\ c.args["chamfer_bottom"] = Pair(30000, 20000)
        /\ TopCutters(c) # {}
        /\ BottomCutters(c) # {}
        /\ status = "done"

\* C10 as stated: whenever spokes gets past its assertions and its own
\* arithmetic (n_spokes > 1, spokes_od and spoke_width present), the radii
\* of the wedge it builds satisfy r1 < r2.
C10_InnerRadiusBelowOuter ==
    \A c \in CallsOf("spokes") :
        (/\ Present(c, "n_spokes")
         /\ c.err \notin {"AssertionError", "TypeError", "ZeroDivisionError"}) =>
          \A j \in OpsNamed(c, "wedge") : c.ops[j][2][1] < c.ops[j][2][2]

====
